---- MODULE Spec2Model ----
(***************************************************************************)
(* The RFID card registry of components/rfid_manager/rfid_manager.c: the   *)
(* fixed-slot in-memory table, the backing file it is saved to and loaded  *)
(* from, and the write-coalescing cache (dirty flag, one-shot timer, the   *)
(* ready-to-write signal consumed by rfid_manager_process).                *)
(*                                                                         *)
(* Every API function is one action: a call that obtains rfid_mutex runs   *)
(* to its return in one step, a call that finds the lock held by a task    *)
(* for the whole of its bounded wait returns its failure.  The timer       *)
(* callback and the process step are actions of their own.  The lock is    *)
(* followed as FreeRTOS keeps it (the holder and the recursive call count  *)
(* of the queue structure), since the code takes and gives one mutex with  *)
(* both the plain and the recursive calls.  In SpecTasks the flush call    *)
(* and the process step are followed statement by statement, next to the   *)
(* other calls; in SpecSteps also the init call, and the write of the      *)
(* process step from fopen to fclose.  Card ids are small numbers: 0       *)
(* is the empty-slot value, 1..3 stand for the three compiled-in default   *)
(* cards, the others are ids a caller may enrol.  Slots are numbered from  *)
(* 1 (slot i of the model is rfid_database[i-1]).  xSemaphoreCreateMutex   *)
(* and esp_timer_create are taken to succeed.                              *)
(***************************************************************************)
EXTENDS Naturals, Sequences, FiniteSets, TLC

\* ---------------------------------------------------------------- bounds
RFID_MAX_CARDS == 4
MaxCardId == 5
MaxSteps == 4
MaxRecursiveCallCount == 2

\* ---------------------------------------------------- program constants
RFID_CARD_NAME_LEN == 32
RFID_DEFAULT_CACHE_TIMEOUT_MS == 5000
RFID_WRITE_TIMEOUT_MS_TEST == 100

NullName == "<NULL>"
LongName == "A card holder name of more than 31 characters"
Names == {LongName}
CardIds == 0 .. MaxCardId
\* what time() returns: one reading, later than the 0 of the default cards
Times == {1}
Timeouts == {0, RFID_WRITE_TIMEOUT_MS_TEST, RFID_DEFAULT_CACHE_TIMEOUT_MS}
SlotIndex == 1 .. RFID_MAX_CARDS

VARIABLES
  rfid_database,          \* the in-memory table, a sequence of RFID_MAX_CARDS slots
  database_file,          \* the backing file: [exists, recs]
  file_altered,           \* the file was changed from outside since it was last written
  rfid_mutex,             \* "NULL" or "created"
  rfid_write_timer,       \* "NULL", "stopped" or "armed"
  is_dirty,
  is_ready_to_write,
  rfid_write_timeout_ms,
  call,                   \* the last completed call: [op, card_id, ret, load, out]
  xMutexHolder,           \* the task that holds rfid_mutex, "NULL" when it is free
  uxRecursiveCallCount,   \* the recursive call count of rfid_mutex
  pc,                     \* where the step-by-step flush call and process step are
  steps,                  \* calls and events on the initialised store so far
  added                   \* the ids of the adds that returned ESP_OK since the
                          \* table was last reset or loaded (history only)

vars == <<rfid_database, database_file, file_altered, rfid_mutex, rfid_write_timer,
          is_dirty, is_ready_to_write, rfid_write_timeout_ms,
          xMutexHolder, uxRecursiveCallCount, pc, call, steps, added>>

\* ------------------------------------------------------------ the table
EmptySlot == [card_id |-> 0, active |-> 0, name |-> "", timestamp |-> 0]

ZeroedDatabase == [i \in SlotIndex |-> EmptySlot]

default_cards ==
  << [card_id |-> 1, active |-> 1, name |-> "Admin Card",  timestamp |-> 0],
     [card_id |-> 2, active |-> 1, name |-> "User Card 1", timestamp |-> 0],
     [card_id |-> 3, active |-> 1, name |-> "User Card 2", timestamp |-> 0] >>

num_default_cards == Len(default_cards)

Min(a, b) == IF a < b THEN a ELSE b

\* strncpy(dst, name, RFID_CARD_NAME_LEN - 1) and the terminator that follows it
CopyName(name) ==
  IF Len(name) > RFID_CARD_NAME_LEN - 1
  THEN SubSeq(name, 1, RFID_CARD_NAME_LEN - 1)
  ELSE name

\* the copy loop, wrongly stopping one default card early
DefaultDatabase_ShortCopy ==
  [i \in SlotIndex |->
     IF i <= Min(num_default_cards - 1, RFID_MAX_CARDS)
     THEN [default_cards[i] EXCEPT !.name = CopyName(@)]
     ELSE EmptySlot]

\* memset, then the copy loop over default_cards
DefaultDatabase ==
  [i \in SlotIndex |->
     IF i <= Min(num_default_cards, RFID_MAX_CARDS)
     THEN [default_cards[i] EXCEPT !.name = CopyName(@)]
     ELSE EmptySlot]

\* the recount of rfid_manager_get_card_count
CountActive(db) ==
  Cardinality({i \in DOMAIN db : db[i].active # 0 /\ db[i].card_id # 0})

\* the scan of rfid_manager_check_card / rfid_manager_remove_card: the first
\* slot that holds card_id and is active, 0 when there is none
FindActive(db, card_id) ==
  LET hits == {i \in DOMAIN db : db[i].card_id = card_id /\ db[i].active # 0}
  IN  IF hits = {} THEN 0 ELSE CHOOSE i \in hits : \A j \in hits : i <= j

\* the duplicate scan, wrongly passing over the active slots
IdExists_TombstonesOnly(db, card_id) ==
  \E i \in DOMAIN db : db[i].card_id = card_id /\ db[i].card_id # 0 /\ db[i].active = 0

\* the duplicate scan, wrongly passing over the removed slots
IdExists_ActiveOnly(db, card_id) ==
  \E i \in DOMAIN db : db[i].card_id = card_id /\ db[i].card_id # 0 /\ db[i].active # 0

\* the duplicate scan of rfid_manager_add_card
IdExists(db, card_id) ==
  \E i \in DOMAIN db : db[i].card_id = card_id /\ db[i].card_id # 0

\* the first-fit scan, wrongly taking only never-used slots
FirstInactiveSlot_NoReuse(db) ==
  LET free == {i \in DOMAIN db : db[i].card_id = 0}
  IN  IF free = {} THEN RFID_MAX_CARDS + 1
      ELSE CHOOSE i \in free : \A j \in free : i <= j

\* the scan, wrongly taking the last slot that is free
FirstInactiveSlot_LastFit(db) ==
  LET free == {i \in DOMAIN db : db[i].card_id = 0 \/ db[i].active = 0}
  IN  IF free = {} THEN RFID_MAX_CARDS + 1
      ELSE CHOOSE i \in free : \A j \in free : j <= i

\* the first-fit scan of rfid_manager_add_card: RFID_MAX_CARDS + 1 when full
FirstInactiveSlot(db) ==
  LET free == {i \in DOMAIN db : db[i].card_id = 0 \/ db[i].active = 0}
  IN  IF free = {} THEN RFID_MAX_CARDS + 1
      ELSE CHOOSE i \in free : \A j \in free : i <= j

\* ------------------------------------------------------------- the file
AbsentFile == [exists |-> FALSE, recs |-> << >>]

\* What one run of fopen("wb") / fwrite / fclose can do: "ok", or a failure
\* of one of the three calls with n records having reached the file (a short
\* fwrite is followed with all records but the last one written).
GoodIo == {[kind |-> "ok", n |-> RFID_MAX_CARDS]}
FailedIo ==
  {[kind |-> "fopen", n |-> 0]}
  \cup {[kind |-> "fwrite", n |-> RFID_MAX_CARDS - 1]}
  \cup {[kind |-> "fclose", n |-> RFID_MAX_CARDS]}
AnyIo == GoodIo \cup FailedIo

\* The environment of one call: with faults, file operations may fail and
\* the filesystem may be unmounted; without, they succeed.  Ios is asked for
\* the outcomes of a save only by a call that may save.
Ios(faults, saves) == IF faults /\ saves THEN AnyIo ELSE GoodIo
Mounts(faults) == IF faults THEN BOOLEAN ELSE {TRUE}
Reads(faults) == IF faults THEN BOOLEAN ELSE {TRUE}

\* rfid_manager_save_to_file: fopen("wb") truncates the file, fwrite sends
\* the whole table, fclose ends it.  A failed fopen leaves the file alone;
\* after a failed fwrite or fclose the file holds the records that got through.
rfid_manager_save_to_file(mutex, db, file, altered, io) ==
  IF mutex = "NULL" \/ io.kind = "fopen"
  THEN [ret |-> "ESP_FAIL", file |-> file, altered |-> altered]
  ELSE [ret |-> IF io.kind = "ok" THEN "ESP_OK" ELSE "ESP_FAIL",
        file |-> [exists |-> TRUE, recs |-> SubSeq(db, 1, io.n)],
        altered |-> FALSE]

\* the load that wrongly drops the removed cards
rfid_manager_load_from_file_SkipsInactive(db, file, readOk) ==
  IF ~file.exists THEN [ret |-> "ESP_ERR_NOT_FOUND", db |-> db]
  ELSE IF Len(file.recs) # RFID_MAX_CARDS
       THEN [ret |-> "ESP_ERR_INVALID_SIZE", db |-> ZeroedDatabase]
  ELSE IF ~readOk THEN [ret |-> "ESP_FAIL", db |-> ZeroedDatabase]
  ELSE [ret |-> "ESP_OK",
        db |-> [i \in SlotIndex |->
                  IF file.recs[i].active # 0 THEN file.recs[i] ELSE EmptySlot]]

\* rfid_manager_load_from_file: the return value and the table it leaves.
\* The table is zeroed before the file size is compared; fread fills it only
\* when the size is that of RFID_MAX_CARDS records.
rfid_manager_load_from_file(db, file, readOk) ==
  IF ~file.exists THEN [ret |-> "ESP_ERR_NOT_FOUND", db |-> db]
  ELSE IF Len(file.recs) # RFID_MAX_CARDS
       THEN [ret |-> "ESP_ERR_INVALID_SIZE", db |-> ZeroedDatabase]
  ELSE IF ~readOk THEN [ret |-> "ESP_FAIL", db |-> ZeroedDatabase]
  ELSE [ret |-> "ESP_OK", db |-> file.recs]

\* the default table, wrongly left unsaved
rfid_manager_load_defaults_NoSave(mutex, file, altered, io) ==
  [ret |-> "ESP_OK", db |-> DefaultDatabase, file |-> file, altered |-> altered]

\* rfid_manager_load_defaults: the default table, saved at once
rfid_manager_load_defaults(mutex, file, altered, io) ==
  LET s == rfid_manager_save_to_file(mutex, DefaultDatabase, file, altered, io)
  IN  [ret |-> s.ret, db |-> DefaultDatabase, file |-> s.file, altered |-> s.altered]

\* the write that wrongly reports success and clears dirty whatever the save returned
rfid_manager_write_into_memory_IgnoresSave(mutex, dirty, db, file, altered, io) ==
  IF mutex = "NULL"
  THEN [ret |-> "ESP_FAIL", dirty |-> dirty, file |-> file, altered |-> altered]
  ELSE IF ~dirty
  THEN [ret |-> "ESP_OK", dirty |-> dirty, file |-> file, altered |-> altered]
  ELSE LET s == rfid_manager_save_to_file(mutex, db, file, altered, io)
       IN  [ret |-> "ESP_OK", dirty |-> FALSE, file |-> s.file, altered |-> s.altered]

\* rfid_manager_write_into_memory: saves when dirty, clears dirty when saved
rfid_manager_write_into_memory(mutex, dirty, db, file, altered, io) ==
  IF mutex = "NULL"
  THEN [ret |-> "ESP_FAIL", dirty |-> dirty, file |-> file, altered |-> altered]
  ELSE IF ~dirty
  THEN [ret |-> "ESP_OK", dirty |-> dirty, file |-> file, altered |-> altered]
  ELSE LET s == rfid_manager_save_to_file(mutex, db, file, altered, io)
       IN  [ret |-> IF s.ret = "ESP_OK" THEN "ESP_OK" ELSE "ESP_FAIL",
            dirty |-> (s.ret # "ESP_OK"), file |-> s.file, altered |-> s.altered]

\* ------------------------------------------------------------- the lock
\* rfid_mutex comes from xSemaphoreCreateMutex.  The API functions take it
\* with xSemaphoreTake and give it with xSemaphoreGive; the save takes it
\* with xSemaphoreTakeRecursive and gives it with xSemaphoreGive;
\* rfid_manager_write_into_memory takes and gives it with the recursive
\* calls.  A recursive take by the holder, or of the free lock, passes and
\* adds one to the count; xSemaphoreGive frees the lock whatever the count
\* and leaves the count; xSemaphoreGiveRecursive by the holder takes one off
\* the count and frees the lock when the count is back to 0, and fails when
\* the caller is not the holder.

\* the tasks followed by name: the one that runs rfid_manager_process and
\* the one whose flush call is followed statement by statement
Tasks == {"driver", "caller"}

\* the take that wrongly passes while another task holds the lock
TakesLock_IgnoresHolder == rfid_mutex # "NULL"

\* xSemaphoreTake within its bounded wait: the mutex exists and no task holds it
TakesLock == rfid_mutex # "NULL" /\ xMutexHolder = "NULL"

\* xSemaphoreTakeRecursive by task within its bounded wait
TakesLockRecursive(task) == rfid_mutex # "NULL" /\ xMutexHolder \in {"NULL", task}

\* the count after a recursive take has passed; the counts from
\* MaxRecursiveCallCount on are kept as one value
Recursed(n) == Min(n + 1, MaxRecursiveCallCount)

\* The lock after a section that ran rfid_manager_save_to_file n times
\* under n recursive takes in all (1: the take of the save; 2: that of
\* rfid_manager_write_into_memory as well): the xSemaphoreGive of the save
\* has freed it, the recursive give after it has failed, the count stays up.
SaveLeavesLock(n) ==
  /\ xMutexHolder' = "NULL"
  /\ uxRecursiveCallCount' = IF n = 1 THEN Recursed(uxRecursiveCallCount)
                             ELSE Recursed(Recursed(uxRecursiveCallCount))

\* ------------------------------------------------------------ the start
Init ==
  /\ rfid_database = ZeroedDatabase
  /\ database_file = AbsentFile
  /\ file_altered = FALSE
  /\ rfid_mutex = "NULL"
  /\ rfid_write_timer = "NULL"
  /\ is_dirty = FALSE
  /\ is_ready_to_write = FALSE
  /\ rfid_write_timeout_ms = RFID_DEFAULT_CACHE_TIMEOUT_MS
  /\ call = [op |-> "boot", card_id |-> 0, ret |-> "ESP_OK", load |-> "-", out |-> "-"]
  /\ xMutexHolder = "NULL"
  /\ uxRecursiveCallCount = 0
  /\ pc = [task \in Tasks |-> "idle"]
  /\ steps = 0
  /\ added = {}

\* A call or event completes: what it was and what it returned (for init also
\* what its rfid_manager_load_from_file returned, "-" when it was not called).
\* A run is followed for MaxSteps calls and events on an initialised store.
\* The history of added ids starts again when format or init has rewritten
\* the table.
Completes(op, card_id, ret, load) ==
  /\ steps < MaxSteps
  /\ steps' = IF rfid_mutex = "NULL" THEN steps ELSE steps + 1
  /\ call' = [op |-> op, card_id |-> card_id, ret |-> ret, load |-> load, out |-> "-"]
  /\ added' = IF op = "add" /\ ret = "ESP_OK" THEN added \cup {card_id}
              ELSE IF op = "format" /\ rfid_mutex # "NULL" THEN {}
              ELSE IF op = "init" /\ load # "-" THEN {}
              ELSE added

\* a call returns, having given back the lock as it took it
Returns(op, card_id, ret) ==
  /\ Completes(op, card_id, ret, "-")
  /\ UNCHANGED <<xMutexHolder, uxRecursiveCallCount, pc>>

\* a call returns after a section that saved under n recursive takes
ReturnsSaved(op, card_id, ret, n) ==
  /\ Completes(op, card_id, ret, "-")
  /\ SaveLeavesLock(n)
  /\ UNCHANGED pc

\* The file is changed from outside: counted like a call
Tampers(op) ==
  /\ steps < MaxSteps
  /\ steps' = steps + 1
  /\ call' = [op |-> op, card_id |-> 0, ret |-> "ESP_OK", load |-> "-", out |-> "-"]
  /\ UNCHANGED <<added, xMutexHolder, uxRecursiveCallCount, pc>>

\* esp_timer_stop on the handle, when there is one
StopTimer(t) == IF t = "NULL" THEN "NULL" ELSE "stopped"

\* the tail that wrongly writes the table at once whatever the timeout
MarkDirtyAndSchedule_WriteThrough(op, card_id, db, io) ==
  LET w == rfid_manager_write_into_memory(rfid_mutex, TRUE, db,
                                          database_file, file_altered, io)
  IN  /\ rfid_database' = db
      /\ is_dirty' = w.dirty
      /\ rfid_write_timer' = StopTimer(rfid_write_timer)
      /\ database_file' = w.file
      /\ file_altered' = w.altered
      /\ ReturnsSaved(op, card_id, w.ret, 2)
      /\ UNCHANGED <<rfid_mutex, is_ready_to_write, rfid_write_timeout_ms>>

\* the tail that wrongly takes the mutation back when its write fails
MarkDirtyAndSchedule_RollsBack(op, card_id, db, io) ==
  /\ IF rfid_write_timer = "NULL"
     THEN /\ rfid_database' = db
          /\ is_dirty' = TRUE
          /\ UNCHANGED <<rfid_write_timer, database_file, file_altered>>
          /\ Returns(op, card_id, "ESP_OK")
     ELSE IF rfid_write_timeout_ms > 0
     THEN /\ rfid_database' = db
          /\ is_dirty' = TRUE
          /\ rfid_write_timer' = "armed"
          /\ UNCHANGED <<database_file, file_altered>>
          /\ Returns(op, card_id, "ESP_OK")
     ELSE LET w == rfid_manager_write_into_memory(rfid_mutex, TRUE, db,
                                                  database_file, file_altered, io)
          IN  /\ rfid_database' = IF w.ret = "ESP_OK" THEN db ELSE rfid_database
              /\ is_dirty' = w.dirty
              /\ rfid_write_timer' = "stopped"
              /\ database_file' = w.file
              /\ file_altered' = w.altered
              /\ ReturnsSaved(op, card_id, w.ret, 2)
  /\ UNCHANGED <<rfid_mutex, is_ready_to_write, rfid_write_timeout_ms>>

\* The tail shared by a successful add and remove: is_dirty = true, the timer
\* is stopped and, with a timeout above 0, started again; with timeout 0 the
\* table is written at once by rfid_manager_write_into_memory.
MarkDirtyAndSchedule(op, card_id, db, io) ==
  /\ rfid_database' = db
  /\ IF rfid_write_timer = "NULL"
     THEN /\ is_dirty' = TRUE
          /\ UNCHANGED <<rfid_write_timer, database_file, file_altered>>
          /\ Returns(op, card_id, "ESP_OK")
     ELSE IF rfid_write_timeout_ms > 0
     THEN /\ is_dirty' = TRUE
          /\ rfid_write_timer' = "armed"
          /\ UNCHANGED <<database_file, file_altered>>
          /\ Returns(op, card_id, "ESP_OK")
     ELSE LET w == rfid_manager_write_into_memory(rfid_mutex, TRUE, db,
                                                  database_file, file_altered, io)
          IN  /\ is_dirty' = w.dirty
              /\ rfid_write_timer' = "stopped"
              /\ database_file' = w.file
              /\ file_altered' = w.altered
              /\ ReturnsSaved(op, card_id, w.ret, 2)
  /\ UNCHANGED <<rfid_mutex, is_ready_to_write, rfid_write_timeout_ms>>

\* a call that returns early but wrongly leaves the dirty flag set
Fails_MarksDirty(op, card_id, ret) ==
  /\ Returns(op, card_id, ret)
  /\ is_dirty' = TRUE
  /\ UNCHANGED <<rfid_database, database_file, file_altered, rfid_mutex,
                 rfid_write_timer, is_ready_to_write, rfid_write_timeout_ms>>

\* A call that returns without touching anything
Fails(op, card_id, ret) ==
  /\ Returns(op, card_id, ret)
  /\ UNCHANGED <<rfid_database, database_file, file_altered, rfid_mutex,
                 rfid_write_timer, is_dirty, is_ready_to_write, rfid_write_timeout_ms>>

\* ------------------------------------------------------------- the API
rfid_manager_init(faults) ==
  \E mounted \in Mounts(faults), readOk \in Reads(faults), io \in Ios(faults, TRUE) :
    /\ xMutexHolder = "NULL"
    /\ UNCHANGED pc
    /\ rfid_mutex' = "created"
    /\ is_dirty' = FALSE
    /\ rfid_write_timer' = IF rfid_write_timer = "NULL" THEN "stopped" ELSE rfid_write_timer
    /\ IF ~mounted
       THEN /\ UNCHANGED <<rfid_database, database_file, file_altered,
                           xMutexHolder, uxRecursiveCallCount>>
            /\ Completes("init", 0, "ESP_ERR_INVALID_STATE", "-")
       ELSE LET l == rfid_manager_load_from_file(rfid_database, database_file, readOk)
                d == rfid_manager_load_defaults("created", database_file, file_altered, io)
            IN  IF l.ret = "ESP_OK"
                THEN /\ rfid_database' = l.db
                     /\ UNCHANGED <<database_file, file_altered,
                                    xMutexHolder, uxRecursiveCallCount>>
                     /\ Completes("init", 0, "ESP_OK", l.ret)
                ELSE /\ rfid_database' = d.db
                     /\ database_file' = d.file
                     /\ file_altered' = d.altered
                     /\ SaveLeavesLock(1)
                     /\ Completes("init", 0, d.ret, l.ret)
    /\ UNCHANGED <<is_ready_to_write, rfid_write_timeout_ms>>

rfid_manager_add_card(faults) ==
  \E card_id \in CardIds, name \in Names \cup {NullName}, now \in Times,
     io \in Ios(faults, rfid_write_timeout_ms = 0) :
    IF ~TakesLock THEN Fails("add", card_id, "ESP_FAIL")
    ELSE IF name = NullName THEN Fails("add", card_id, "ESP_ERR_INVALID_ARG")
    ELSE IF IdExists(rfid_database, card_id) THEN Fails("add", card_id, "ESP_ERR_INVALID_STATE")
    ELSE IF FirstInactiveSlot(rfid_database) > RFID_MAX_CARDS
         THEN Fails("add", card_id, "ESP_ERR_NO_MEM")
    ELSE MarkDirtyAndSchedule("add", card_id,
           [rfid_database EXCEPT ![FirstInactiveSlot(rfid_database)] =
              [card_id |-> card_id, active |-> 1, name |-> CopyName(name), timestamp |-> now]],
           io)

\* the remove that wrongly frees the id of the slot as well
rfid_manager_remove_card_ClearsId(faults) ==
  \E card_id \in CardIds, io \in Ios(faults, rfid_write_timeout_ms = 0) :
    IF ~TakesLock THEN Fails("remove", card_id, "ESP_FAIL")
    ELSE IF FindActive(rfid_database, card_id) = 0
         THEN Fails("remove", card_id, "ESP_ERR_NOT_FOUND")
    ELSE MarkDirtyAndSchedule("remove", card_id,
           [rfid_database EXCEPT ![FindActive(rfid_database, card_id)] =
              [@ EXCEPT !.active = 0, !.card_id = 0]], io)

rfid_manager_remove_card(faults) ==
  \E card_id \in CardIds, io \in Ios(faults, rfid_write_timeout_ms = 0) :
    IF ~TakesLock THEN Fails("remove", card_id, "ESP_FAIL")
    ELSE IF FindActive(rfid_database, card_id) = 0
         THEN Fails("remove", card_id, "ESP_ERR_NOT_FOUND")
    ELSE MarkDirtyAndSchedule("remove", card_id,
           [rfid_database EXCEPT ![FindActive(rfid_database, card_id)].active = 0], io)

\* the check that wrongly treats the new timestamp as a change to be saved
rfid_manager_check_card_MarksDirty ==
  \E card_id \in CardIds, now \in Times :
    IF ~TakesLock \/ FindActive(rfid_database, card_id) = 0
    THEN Fails("check", card_id, "false")
    ELSE /\ rfid_database' =
              [rfid_database EXCEPT ![FindActive(rfid_database, card_id)].timestamp = now]
         /\ is_dirty' = TRUE
         /\ rfid_write_timer' = IF rfid_write_timeout_ms > 0 THEN "armed" ELSE "stopped"
         /\ Returns("check", card_id, "true")
         /\ UNCHANGED <<database_file, file_altered, rfid_mutex,
                        is_ready_to_write, rfid_write_timeout_ms>>

rfid_manager_check_card ==
  \E card_id \in CardIds, now \in Times :
    IF ~TakesLock \/ FindActive(rfid_database, card_id) = 0
    THEN Fails("check", card_id, "false")
    ELSE /\ rfid_database' =
              [rfid_database EXCEPT ![FindActive(rfid_database, card_id)].timestamp = now]
         /\ Returns("check", card_id, "true")
         /\ UNCHANGED <<database_file, file_altered, rfid_mutex, rfid_write_timer,
                        is_dirty, is_ready_to_write, rfid_write_timeout_ms>>

rfid_manager_format_database(faults) ==
  \E io \in Ios(faults, TRUE) :
    IF ~TakesLock THEN Fails("format", 0, "ESP_FAIL")
    ELSE LET s == rfid_manager_save_to_file(rfid_mutex, DefaultDatabase,
                                            database_file, file_altered, io)
         IN  /\ rfid_database' = DefaultDatabase
             /\ rfid_write_timer' = StopTimer(rfid_write_timer)
             /\ is_dirty' = FALSE
             /\ database_file' = s.file
             /\ file_altered' = s.altered
             /\ Returns("format", 0, s.ret)
             /\ UNCHANGED <<rfid_mutex, is_ready_to_write, rfid_write_timeout_ms>>

\* rfid_manager_flush_cache as a function of the state it starts in; saved
\* tells whether it ran rfid_manager_save_to_file
FlushCache(taken, timer, dirty, db, file, altered, io) ==
  IF ~taken
  THEN [ret |-> "ESP_FAIL", timer |-> timer, dirty |-> dirty, file |-> file,
        altered |-> altered, saved |-> FALSE]
  ELSE IF ~dirty
  THEN [ret |-> "ESP_OK", timer |-> StopTimer(timer), dirty |-> dirty,
        file |-> file, altered |-> altered, saved |-> FALSE]
  ELSE LET s == rfid_manager_save_to_file(rfid_mutex, db, file, altered, io)
       IN  [ret |-> s.ret, timer |-> StopTimer(timer), dirty |-> (s.ret # "ESP_OK"),
            file |-> s.file, altered |-> s.altered, saved |-> TRUE]

rfid_manager_flush_cache(faults) ==
  \E io \in Ios(faults, is_dirty) :
    LET f == FlushCache(TakesLock, rfid_write_timer, is_dirty, rfid_database,
                        database_file, file_altered, io)
    IN  /\ rfid_write_timer' = f.timer
        /\ is_dirty' = f.dirty
        /\ database_file' = f.file
        /\ file_altered' = f.altered
        /\ IF f.saved THEN ReturnsSaved("flush", 0, f.ret, 1) ELSE Returns("flush", 0, f.ret)
        /\ UNCHANGED <<rfid_database, rfid_mutex, is_ready_to_write, rfid_write_timeout_ms>>

\* the call that wrongly only stores the new timeout
rfid_manager_set_cache_timeout_StoresOnly(faults) ==
  \E timeout_ms \in Timeouts :
    IF ~TakesLock THEN Fails("set_cache_timeout", timeout_ms, "ESP_FAIL")
    ELSE /\ rfid_write_timeout_ms' = timeout_ms
         /\ Returns("set_cache_timeout", timeout_ms, "ESP_OK")
         /\ UNCHANGED <<rfid_database, rfid_mutex, is_ready_to_write, rfid_write_timer,
                        is_dirty, database_file, file_altered>>

rfid_manager_set_cache_timeout(faults) ==
  \E timeout_ms \in Timeouts, io \in Ios(faults, is_dirty) :
    IF ~TakesLock THEN Fails("set_cache_timeout", timeout_ms, "ESP_FAIL")
    ELSE /\ IF timeout_ms < rfid_write_timeout_ms /\ is_dirty /\ rfid_write_timer # "NULL"
            THEN IF timeout_ms > 0
                 THEN /\ rfid_write_timer' = "armed"
                      /\ UNCHANGED <<is_dirty, database_file, file_altered>>
                 ELSE LET s == rfid_manager_save_to_file(rfid_mutex, rfid_database,
                                                         database_file, file_altered, io)
                      IN  /\ rfid_write_timer' = "stopped"
                          /\ is_dirty' = FALSE
                          /\ database_file' = s.file
                          /\ file_altered' = s.altered
            ELSE UNCHANGED <<rfid_write_timer, is_dirty, database_file, file_altered>>
         /\ rfid_write_timeout_ms' = timeout_ms
         /\ IF timeout_ms < rfid_write_timeout_ms /\ is_dirty /\ rfid_write_timer # "NULL"
               /\ timeout_ms = 0
            THEN ReturnsSaved("set_cache_timeout", timeout_ms, "ESP_OK", 1)
            ELSE Returns("set_cache_timeout", timeout_ms, "ESP_OK")
         /\ UNCHANGED <<rfid_database, rfid_mutex, is_ready_to_write>>

\* the deinit that wrongly keeps the timer and the lock when the flush failed
rfid_manager_deinit_NeedsFlush(faults) ==
  \E io \in Ios(faults, is_dirty) :
    LET f == FlushCache(TakesLock, rfid_write_timer, is_dirty, rfid_database,
                        database_file, file_altered, io)
    IN  /\ rfid_write_timer' = IF f.ret = "ESP_OK" THEN "NULL" ELSE f.timer
        /\ rfid_mutex' = IF f.ret = "ESP_OK" THEN "NULL" ELSE rfid_mutex
        /\ is_dirty' = f.dirty
        /\ database_file' = f.file
        /\ file_altered' = f.altered
        /\ xMutexHolder' = "NULL"
        /\ uxRecursiveCallCount' = IF f.ret = "ESP_OK" THEN 0
                                   ELSE IF f.saved THEN Recursed(uxRecursiveCallCount)
                                   ELSE uxRecursiveCallCount
        /\ Completes("deinit", 0, "ESP_OK", "-")
        /\ UNCHANGED <<rfid_database, is_ready_to_write, rfid_write_timeout_ms, pc>>

rfid_manager_deinit(faults) ==
  \E io \in Ios(faults, is_dirty) :
    LET f == FlushCache(TakesLock, rfid_write_timer, is_dirty, rfid_database,
                        database_file, file_altered, io)
    IN  /\ rfid_write_timer' = "NULL"
        /\ rfid_mutex' = "NULL"
        /\ is_dirty' = f.dirty
        /\ database_file' = f.file
        /\ file_altered' = f.altered
        /\ xMutexHolder' = "NULL"
        /\ uxRecursiveCallCount' = 0
        /\ Completes("deinit", 0, "ESP_OK", "-")
        /\ UNCHANGED pc
        /\ UNCHANGED <<rfid_database, is_ready_to_write, rfid_write_timeout_ms>>

\* the one-shot timer fires and its callback runs: it only raises the
\* signal, and takes no lock
TimerExpires ==
  /\ rfid_write_timer = "armed"
  /\ rfid_write_timer' = "stopped"
  /\ is_ready_to_write' = TRUE
  /\ UNCHANGED <<rfid_database, database_file, file_altered, rfid_mutex, is_dirty,
                 rfid_write_timeout_ms>>

\* The one-shot timer fires, counted like a call
rfid_cache_write_timeout_handler ==
  /\ TimerExpires
  /\ Returns("timer", 0, "ESP_OK")

\* The lock after rfid_manager_write_into_memory has run in task with the
\* lock obtained: after a save the lock is free and the count two higher;
\* with nothing dirty the recursive give takes back the one the recursive
\* take added, and frees the lock only when the count was 0 before.
WriteLeavesLock(task, dirty) ==
  IF dirty THEN SaveLeavesLock(2)
  ELSE /\ xMutexHolder' = IF uxRecursiveCallCount = 0 THEN "NULL" ELSE task
       /\ UNCHANGED uxRecursiveCallCount

\* the process step that wrongly returns true only when it has written the file
rfid_manager_process_TrueWhenWritten(faults) ==
  \E io \in Ios(faults, is_ready_to_write /\ is_dirty) :
    IF ~is_ready_to_write THEN Fails("process", 0, "false")
    ELSE IF ~TakesLockRecursive("driver")
    THEN /\ Completes("process", 0, "false", "-")
         /\ UNCHANGED <<rfid_database, database_file, file_altered, rfid_mutex,
                        rfid_write_timer, is_dirty, is_ready_to_write,
                        rfid_write_timeout_ms, xMutexHolder, uxRecursiveCallCount, pc>>
    ELSE LET w == rfid_manager_write_into_memory(rfid_mutex, is_dirty, rfid_database,
                                                 database_file, file_altered, io)
         IN  /\ is_ready_to_write' = (w.ret # "ESP_OK")
             /\ is_dirty' = w.dirty
             /\ database_file' = w.file
             /\ file_altered' = w.altered
             /\ WriteLeavesLock("driver", is_dirty)
             /\ Completes("process", 0,
                          IF is_dirty /\ w.ret = "ESP_OK" THEN "true" ELSE "false", "-")
             /\ UNCHANGED <<rfid_database, rfid_mutex, rfid_write_timer,
                            rfid_write_timeout_ms, pc>>

\* the process step that wrongly clears the signal whatever the write returned
rfid_manager_process_ClearsOnFailure(faults) ==
  \E io \in Ios(faults, is_ready_to_write /\ is_dirty) :
    IF ~is_ready_to_write THEN Fails("process", 0, "false")
    ELSE LET w == rfid_manager_write_into_memory(
                    IF TakesLockRecursive("driver") THEN rfid_mutex ELSE "NULL",
                    is_dirty, rfid_database, database_file, file_altered, io)
         IN  /\ is_ready_to_write' = FALSE
             /\ is_dirty' = w.dirty
             /\ database_file' = w.file
             /\ file_altered' = w.altered
             /\ IF TakesLockRecursive("driver")
                THEN WriteLeavesLock("driver", is_dirty)
                ELSE UNCHANGED <<xMutexHolder, uxRecursiveCallCount>>
             /\ Completes("process", 0, "true", "-")
             /\ UNCHANGED <<rfid_database, rfid_mutex, rfid_write_timer,
                            rfid_write_timeout_ms, pc>>

\* rfid_manager_process, called by the driver task
rfid_manager_process(faults) ==
  \E io \in Ios(faults, is_ready_to_write /\ is_dirty) :
    IF ~is_ready_to_write THEN Fails("process", 0, "false")
    ELSE IF ~TakesLockRecursive("driver")
    THEN /\ Completes("process", 0, "true", "-")
         /\ UNCHANGED <<rfid_database, database_file, file_altered, rfid_mutex,
                        rfid_write_timer, is_dirty, is_ready_to_write,
                        rfid_write_timeout_ms, xMutexHolder, uxRecursiveCallCount, pc>>
    ELSE LET w == rfid_manager_write_into_memory(rfid_mutex, is_dirty, rfid_database,
                                                 database_file, file_altered, io)
         IN  /\ is_ready_to_write' = (w.ret # "ESP_OK")
             /\ is_dirty' = w.dirty
             /\ database_file' = w.file
             /\ file_altered' = w.altered
             /\ WriteLeavesLock("driver", is_dirty)
             /\ Completes("process", 0, "true", "-")
             /\ UNCHANGED <<rfid_database, rfid_mutex, rfid_write_timer,
                            rfid_write_timeout_ms, pc>>

\* ------------------------------------------- the file changed from outside
\* The file is deleted
DeleteFile ==
  /\ database_file.exists
  /\ database_file' = AbsentFile
  /\ file_altered' = FALSE
  /\ Tampers("delete_file")
  /\ UNCHANGED <<rfid_database, rfid_mutex, rfid_write_timer, is_dirty,
                 is_ready_to_write, rfid_write_timeout_ms>>

\* A full-size file is cut short (emptied, or its last record lost), or
\* grows by one record
ResizeFile ==
  /\ database_file.exists
  /\ Len(database_file.recs) = RFID_MAX_CARDS
  /\ \E n \in {0, RFID_MAX_CARDS - 1, RFID_MAX_CARDS + 1} :
       database_file' =
         [exists |-> TRUE,
          recs |-> IF n < RFID_MAX_CARDS
                   THEN SubSeq(database_file.recs, 1, n)
                   ELSE Append(database_file.recs, EmptySlot)]
  /\ file_altered' = FALSE
  /\ Tampers("resize_file")
  /\ UNCHANGED <<rfid_database, rfid_mutex, rfid_write_timer, is_dirty,
                 is_ready_to_write, rfid_write_timeout_ms>>

\* the records one changed field away from r
AlteredRecords(r) ==
  {[r EXCEPT !.card_id = c] : c \in CardIds \ {r.card_id}}
  \cup {[r EXCEPT !.active = 1 - @]}
  \cup {[r EXCEPT !.name = "corrupted"]}

\* One record of a full-size file is changed in place; the size stays
AlterFile ==
  /\ database_file.exists
  /\ Len(database_file.recs) = RFID_MAX_CARDS
  /\ ~file_altered
  /\ \E i \in SlotIndex :
       \E r \in AlteredRecords(database_file.recs[i]) :
         database_file' = [database_file EXCEPT !.recs[i] = r]
  /\ file_altered' = TRUE
  /\ Tampers("alter_file")
  /\ UNCHANGED <<rfid_database, rfid_mutex, rfid_write_timer, is_dirty,
                 is_ready_to_write, rfid_write_timeout_ms>>

\* ---------------------------------------------------------- the reads
\* A read completes: it leaves the store as it is, and is not counted (for
\* list_cards the card_id field of the record holds buffer_size)
Answers(op, card_id, ret, out) ==
  /\ call' = [op |-> op, card_id |-> card_id, ret |-> ret, load |-> "-", out |-> out]
  /\ UNCHANGED <<rfid_database, database_file, file_altered, rfid_mutex,
                 rfid_write_timer, is_dirty, is_ready_to_write,
                 rfid_write_timeout_ms, xMutexHolder, uxRecursiveCallCount, pc,
                 steps, added>>

\* the scan of rfid_manager_get_card: the first slot that holds card_id
\* decides, ESP_OK with a copy when it is active, ESP_ERR_NOT_FOUND with
\* *card untouched when it is not or when no slot holds card_id
GetCard(db, card_id) ==
  LET hits == {i \in DOMAIN db : db[i].card_id = card_id}
      first == CHOOSE i \in hits : \A j \in hits : i <= j
  IN  IF hits = {} THEN [ret |-> "ESP_ERR_NOT_FOUND", card |-> "-"]
      ELSE IF db[first].active # 0 THEN [ret |-> "ESP_OK", card |-> db[first]]
      ELSE [ret |-> "ESP_ERR_NOT_FOUND", card |-> "-"]

\* the pointers a caller passes for an output parameter
Pointers == {"NULL", "buffer"}

\* the buffer_size values a caller of rfid_manager_list_cards passes
BufferSizes == 0 .. RFID_MAX_CARDS

\* what rfid_manager_get_card returns and leaves in *card; taken tells
\* whether it obtains the lock
GetCardCall(taken, db, card_id, card) ==
  IF card = "NULL" THEN [ret |-> "ESP_ERR_INVALID_ARG", out |-> "-"]
  ELSE IF ~taken THEN [ret |-> "ESP_FAIL", out |-> "-"]
  ELSE [ret |-> GetCard(db, card_id).ret, out |-> GetCard(db, card_id).card]

rfid_manager_get_card ==
  \E card_id \in CardIds, card \in Pointers :
    LET r == GetCardCall(TakesLock, rfid_database, card_id, card)
    IN  Answers("get_card", card_id, r.ret, r.out)

\* what rfid_manager_get_card_count returns
GetCardCountCall(taken, db) == IF ~taken THEN 0 ELSE CountActive(db)

rfid_manager_get_card_count ==
  Answers("get_card_count", 0, "-", GetCardCountCall(TakesLock, rfid_database))

\* the copy loop of rfid_manager_list_cards from slot i on, with the cards
\* copied so far
RECURSIVE CopyActiveFrom(_, _, _, _)
CopyActiveFrom(db, i, buffer_size, copied) ==
  IF i > Len(db) \/ Len(copied) >= buffer_size THEN copied
  ELSE CopyActiveFrom(db, i + 1, buffer_size,
         IF db[i].active # 0 /\ db[i].card_id # 0 THEN Append(copied, db[i]) ELSE copied)

\* the copy loop, wrongly copying every slot with a nonzero id
RECURSIVE CopyNonEmptyFrom(_, _, _, _)
CopyNonEmptyFrom(db, i, buffer_size, copied) ==
  IF i > Len(db) \/ Len(copied) >= buffer_size THEN copied
  ELSE CopyNonEmptyFrom(db, i + 1, buffer_size,
         IF db[i].card_id # 0 THEN Append(copied, db[i]) ELSE copied)

ListCards_WithTombstones(db, buffer_size) == CopyNonEmptyFrom(db, 1, buffer_size, << >>)

\* what rfid_manager_list_cards leaves in cards_buffer; *num_cards_copied is
\* the length
ListCards(db, buffer_size) == CopyActiveFrom(db, 1, buffer_size, << >>)

\* what rfid_manager_list_cards returns and leaves in cards_buffer
ListCardsCall(taken, db, cards_buffer, buffer_size, num_cards_copied) ==
  IF cards_buffer = "NULL" \/ num_cards_copied = "NULL"
  THEN [ret |-> "ESP_ERR_INVALID_ARG", out |-> "-"]
  ELSE IF ~taken THEN [ret |-> "ESP_FAIL", out |-> << >>]
  ELSE [ret |-> "ESP_OK", out |-> ListCards(db, buffer_size)]

rfid_manager_list_cards ==
  \E cards_buffer \in Pointers, num_cards_copied \in Pointers, buffer_size \in BufferSizes :
    LET r == ListCardsCall(TakesLock, rfid_database, cards_buffer, buffer_size,
                           num_cards_copied)
    IN  Answers("list_cards", buffer_size, r.ret, r.out)

\* the lengths a caller of rfid_manager_get_card_list_json passes: none, one
\* too short for a card, and that of the test's buffer
JsonLengths == {0, 80, 1024}

\* the characters snprintf writes for one card: the separator, the fixed
\* text, the id in hexadecimal (eight digits for the ids the model numbers
\* 1, 2, ...), the name and the timestamp (one digit for 0 and 1)
JsonEntryLength(card, isComma) ==
  (IF isComma THEN 1 ELSE 0) + 25 + 8 + Len(card.name) + 1

\* the loop of rfid_manager_get_card_list_json from slot i on, with the
\* length written so far and the cards printed so far: the cards printed
\* and whether the buffer was found too small
RECURSIVE JsonFrom(_, _, _, _, _)
JsonFrom(db, i, length, bufferMaxLength, printed) ==
  IF i > Len(db)
  THEN [ret |-> IF length + 3 >= bufferMaxLength THEN "ESP_FAIL" ELSE "ESP_OK",
        cards |-> printed]
  ELSE IF db[i].active # 0 /\ db[i].card_id # 0
  THEN IF length + 80 >= bufferMaxLength
       THEN [ret |-> "ESP_FAIL", cards |-> printed]
       ELSE JsonFrom(db, i + 1, length + JsonEntryLength(db[i], printed # << >>),
                     bufferMaxLength, Append(printed, db[i]))
  ELSE JsonFrom(db, i + 1, length, bufferMaxLength, printed)

\* rfid_manager_get_card_list_json: ret starts as ESP_OK and is returned as
\* it is when the lock is not obtained, with the buffer left as it was
\* ("untouched")
JsonCall(mutex, taken, db, buffer, bufferMaxLength) ==
  IF buffer = "NULL" \/ bufferMaxLength = 0
  THEN [ret |-> "ESP_FAIL", out |-> "untouched"]
  ELSE IF mutex = "NULL" THEN [ret |-> "ESP_FAIL", out |-> << >>]
  ELSE IF ~taken THEN [ret |-> "ESP_OK", out |-> "untouched"]
  ELSE LET j == JsonFrom(db, 1, 10, bufferMaxLength, << >>)
       IN  [ret |-> j.ret, out |-> j.cards]

rfid_manager_get_card_list_json ==
  \E buffer \in Pointers, bufferMaxLength \in JsonLengths :
    LET r == JsonCall(rfid_mutex, TakesLock, rfid_database, buffer, bufferMaxLength)
    IN  Answers("get_card_list_json", bufferMaxLength, r.ret, r.out)

\* http_server_rfid_list_cards_handler: 200 with the buffer unless
\* rfid_manager_get_card_list_json returned ESP_FAIL, and 400 then
ListHandlerStatus(ret) == IF ret # "ESP_FAIL" THEN 200 ELSE 400

\* http_server_rfid_add_card_handler, for a request that carries a nonzero
\* id and a name: the status it answers for what rfid_manager_add_card
\* returned
RFID_MANAGER_ERR_DUPLICATE_ID == "RFID_MANAGER_ERR_DUPLICATE_ID"

AddHandlerStatus(ret) ==
  IF ret = "ESP_OK" THEN 200
  ELSE IF ret = RFID_MANAGER_ERR_DUPLICATE_ID THEN 409
  ELSE IF ret = "ESP_ERR_NO_MEM" THEN 507
  ELSE 500

\* ------------------------------------------- the calls statement by statement
\* A statement of a call that has not returned yet: nothing completes
Continues(task, at) ==
  /\ pc' = [pc EXCEPT ![task] = at]
  /\ UNCHANGED <<call, steps, added>>

\* A call followed statement by statement returns.  The process step and
\* the end of a flush call are not counted: the call was when it started.
Finishes(task, op, ret) ==
  /\ pc' = [pc EXCEPT ![task] = "idle"]
  /\ call' = [op |-> op, card_id |-> 0, ret |-> ret, load |-> "-", out |-> "-"]
  /\ UNCHANGED <<steps, added>>

\* rfid_manager_flush_cache up to its xSemaphoreTake
FlushTake ==
  /\ pc["caller"] = "idle"
  /\ steps < MaxSteps
  /\ UNCHANGED <<rfid_database, database_file, file_altered, rfid_mutex,
                 rfid_write_timer, is_dirty, is_ready_to_write,
                 rfid_write_timeout_ms, uxRecursiveCallCount, added>>
  /\ steps' = IF rfid_mutex = "NULL" THEN steps ELSE steps + 1
  /\ IF TakesLock
     THEN /\ xMutexHolder' = "caller"
          /\ pc' = [pc EXCEPT !["caller"] = "locked"]
          /\ UNCHANGED call
     ELSE /\ call' = [op |-> "flush", card_id |-> 0, ret |-> "ESP_FAIL",
                      load |-> "-", out |-> "-"]
          /\ UNCHANGED <<xMutexHolder, pc>>

\* rfid_manager_flush_cache from esp_timer_stop to the return of
\* rfid_manager_save_to_file, which has given the lock back; with nothing
\* dirty, to the return of the call
FlushSave ==
  \E io \in GoodIo :
    /\ pc["caller"] = "locked"
    /\ rfid_write_timer' = StopTimer(rfid_write_timer)
    /\ UNCHANGED <<rfid_database, rfid_mutex, is_dirty, is_ready_to_write,
                   rfid_write_timeout_ms>>
    /\ IF is_dirty
       THEN LET s == rfid_manager_save_to_file(rfid_mutex, rfid_database,
                                               database_file, file_altered, io)
            IN  /\ database_file' = s.file
                /\ file_altered' = s.altered
                /\ SaveLeavesLock(1)
                /\ Continues("caller", IF s.ret = "ESP_OK" THEN "saved" ELSE "failed")
       ELSE /\ UNCHANGED <<database_file, file_altered, uxRecursiveCallCount>>
            /\ xMutexHolder' = "NULL"
            /\ Finishes("caller", "flush", "ESP_OK")

\* rfid_manager_flush_cache after the save: is_dirty = false when the save
\* returned ESP_OK, then its own xSemaphoreGive, which frees the lock if a
\* task holds it by now, and the return
FlushTail ==
  /\ pc["caller"] \in {"saved", "failed"}
  /\ is_dirty' = IF pc["caller"] = "saved" THEN FALSE ELSE is_dirty
  /\ xMutexHolder' = "NULL"
  /\ Finishes("caller", "flush", IF pc["caller"] = "saved" THEN "ESP_OK" ELSE "ESP_FAIL")
  /\ UNCHANGED <<rfid_database, database_file, file_altered, rfid_mutex,
                 rfid_write_timer, is_ready_to_write, rfid_write_timeout_ms,
                 uxRecursiveCallCount>>

\* The one-shot timer fires, at any moment
TimerFires ==
  /\ TimerExpires
  /\ UNCHANGED <<xMutexHolder, uxRecursiveCallCount, pc, call, steps, added>>

\* rfid_manager_process: the test of is_ready_to_write
ProcessRead ==
  /\ pc["driver"] = "idle"
  /\ UNCHANGED <<rfid_database, database_file, file_altered, rfid_mutex,
                 rfid_write_timer, is_dirty, is_ready_to_write,
                 rfid_write_timeout_ms, xMutexHolder, uxRecursiveCallCount>>
  /\ IF is_ready_to_write
     THEN Continues("driver", "write")
     ELSE Finishes("driver", "process", "false")

\* rfid_manager_process: the call of rfid_manager_write_into_memory, which
\* fails when its recursive take finds the lock held by another task for
\* the whole wait
ProcessWrite ==
  \E io \in GoodIo :
    /\ pc["driver"] = "write"
    /\ UNCHANGED <<rfid_database, rfid_mutex, rfid_write_timer, is_ready_to_write,
                   rfid_write_timeout_ms>>
    /\ IF ~TakesLockRecursive("driver")
       THEN /\ UNCHANGED <<database_file, file_altered, is_dirty,
                           xMutexHolder, uxRecursiveCallCount>>
            /\ Finishes("driver", "process", "true")
       ELSE LET w == rfid_manager_write_into_memory(rfid_mutex, is_dirty, rfid_database,
                                                    database_file, file_altered, io)
            IN  /\ is_dirty' = w.dirty
                /\ database_file' = w.file
                /\ file_altered' = w.altered
                /\ WriteLeavesLock("driver", is_dirty)
                /\ IF w.ret = "ESP_OK"
                   THEN Continues("driver", "clear")
                   ELSE Finishes("driver", "process", "true")

\* rfid_manager_process: is_ready_to_write = false after a write that
\* returned ESP_OK, and the return
ProcessClear ==
  /\ pc["driver"] = "clear"
  /\ is_ready_to_write' = FALSE
  /\ Finishes("driver", "process", "true")
  /\ UNCHANGED <<rfid_database, database_file, file_altered, rfid_mutex,
                 rfid_write_timer, is_dirty, rfid_write_timeout_ms,
                 xMutexHolder, uxRecursiveCallCount>>

\* rfid_manager_init up to its xSemaphoreTake: the mutex and the timer are
\* created when there are none, and is_dirty = false is written before the
\* lock is asked for
InitClear ==
  /\ pc["caller"] = "idle"
  /\ steps < MaxSteps
  /\ rfid_mutex' = "created"
  /\ is_dirty' = FALSE
  /\ rfid_write_timer' = IF rfid_write_timer = "NULL" THEN "stopped" ELSE rfid_write_timer
  /\ Continues("caller", "init")
  /\ UNCHANGED <<rfid_database, database_file, file_altered, is_ready_to_write,
                 rfid_write_timeout_ms, xMutexHolder, uxRecursiveCallCount>>

\* rfid_manager_init from its xSemaphoreTake, which waits for the lock
\* without limit, to its return
InitLoad ==
  \E io \in GoodIo :
    LET l == rfid_manager_load_from_file(rfid_database, database_file, TRUE)
        d == rfid_manager_load_defaults(rfid_mutex, database_file, file_altered, io)
    IN  /\ pc["caller"] = "init"
        /\ xMutexHolder = "NULL"
        /\ pc' = [pc EXCEPT !["caller"] = "idle"]
        /\ IF l.ret = "ESP_OK"
           THEN /\ rfid_database' = l.db
                /\ UNCHANGED <<database_file, file_altered,
                               xMutexHolder, uxRecursiveCallCount>>
                /\ Completes("init", 0, "ESP_OK", l.ret)
           ELSE /\ rfid_database' = d.db
                /\ database_file' = d.file
                /\ file_altered' = d.altered
                /\ SaveLeavesLock(1)
                /\ Completes("init", 0, d.ret, l.ret)
        /\ UNCHANGED <<rfid_mutex, rfid_write_timer, is_dirty, is_ready_to_write,
                       rfid_write_timeout_ms>>

\* rfid_manager_process: rfid_manager_write_into_memory up to the fopen of
\* rfid_manager_save_to_file, which empties the file; with nothing dirty, to
\* its return
ProcessOpen ==
  /\ pc["driver"] = "write"
  /\ UNCHANGED <<rfid_database, rfid_mutex, rfid_write_timer, is_dirty,
                 is_ready_to_write, rfid_write_timeout_ms>>
  /\ IF ~TakesLockRecursive("driver")
     THEN /\ UNCHANGED <<database_file, file_altered, xMutexHolder, uxRecursiveCallCount>>
          /\ Finishes("driver", "process", "true")
     ELSE IF ~is_dirty
     THEN /\ UNCHANGED <<database_file, file_altered>>
          /\ WriteLeavesLock("driver", FALSE)
          /\ Continues("driver", "clear")
     ELSE /\ xMutexHolder' = "driver"
          /\ uxRecursiveCallCount' = Recursed(Recursed(uxRecursiveCallCount))
          /\ database_file' = [exists |-> TRUE, recs |-> << >>]
          /\ file_altered' = FALSE
          /\ Continues("driver", "writing")

\* rfid_manager_process: the fwrite and fclose of the save, its
\* xSemaphoreGive, and is_dirty = false and xSemaphoreGiveRecursive of
\* rfid_manager_write_into_memory, which finds the lock given already
ProcessClose ==
  /\ pc["driver"] = "writing"
  /\ database_file' = [exists |-> TRUE, recs |-> rfid_database]
  /\ file_altered' = FALSE
  /\ is_dirty' = FALSE
  /\ xMutexHolder' = "NULL"
  /\ Continues("driver", "clear")
  /\ UNCHANGED <<rfid_database, rfid_mutex, rfid_write_timer, is_ready_to_write,
                 rfid_write_timeout_ms, uxRecursiveCallCount>>

\* ------------------------------------------------------ specifications
\* The store with a working filesystem
Next ==
  \/ rfid_manager_init(FALSE)
  \/ rfid_manager_add_card(FALSE)
  \/ rfid_manager_remove_card(FALSE)
  \/ rfid_manager_check_card
  \/ rfid_manager_format_database(FALSE)
  \/ rfid_manager_flush_cache(FALSE)
  \/ rfid_manager_set_cache_timeout(FALSE)
  \/ rfid_manager_deinit(FALSE)
  \/ rfid_cache_write_timeout_handler
  \/ rfid_manager_process(FALSE)

Spec == Init /\ [][Next]_vars

\* The store where file operations may fail and the filesystem may be unmounted
NextFaults ==
  \/ rfid_manager_init(TRUE)
  \/ rfid_manager_add_card(TRUE)
  \/ rfid_manager_remove_card(TRUE)
  \/ rfid_manager_check_card
  \/ rfid_manager_format_database(TRUE)
  \/ rfid_manager_flush_cache(TRUE)
  \/ rfid_manager_set_cache_timeout(TRUE)
  \/ rfid_manager_deinit(TRUE)
  \/ rfid_cache_write_timeout_handler
  \/ rfid_manager_process(TRUE)

SpecFaults == Init /\ [][NextFaults]_vars

\* The store with a working filesystem whose file may be deleted, resized or
\* altered between calls
NextCorrupt ==
  \/ Next
  \/ DeleteFile
  \/ ResizeFile
  \/ AlterFile

SpecCorrupt == Init /\ [][NextCorrupt]_vars

\* The store with a working filesystem and the read calls
NextQueries ==
  \/ Next
  \/ rfid_manager_get_card
  \/ rfid_manager_get_card_count
  \/ rfid_manager_list_cards
  \/ rfid_manager_get_card_list_json

SpecQueries == Init /\ [][NextQueries]_vars

\* The store with a working filesystem and its tasks: the calls of request
\* tasks, one flush call followed statement by statement, the timer and the
\* driver of rfid_manager_process
NextTasks ==
  \/ rfid_manager_init(FALSE)
  \/ rfid_manager_add_card(FALSE)
  \/ rfid_manager_remove_card(FALSE)
  \/ rfid_manager_check_card
  \/ rfid_manager_format_database(FALSE)
  \/ rfid_manager_set_cache_timeout(FALSE)
  \/ FlushTake
  \/ FlushSave
  \/ FlushTail
  \/ TimerFires
  \/ ProcessRead
  \/ ProcessWrite
  \/ ProcessClear

\* The tasks again, with rfid_manager_init followed in two steps and the
\* write of rfid_manager_process from the fopen to the fclose
NextSteps ==
  \/ rfid_manager_add_card(FALSE)
  \/ rfid_manager_remove_card(FALSE)
  \/ rfid_manager_check_card
  \/ rfid_manager_format_database(FALSE)
  \/ rfid_manager_set_cache_timeout(FALSE)
  \/ InitClear
  \/ InitLoad
  \/ FlushTake
  \/ FlushSave
  \/ FlushTail
  \/ TimerFires
  \/ ProcessRead
  \/ ProcessOpen
  \/ ProcessClose
  \/ ProcessClear

SpecSteps == Init /\ [][NextSteps]_vars

SpecTasks == Init /\ [][NextTasks]_vars

\* The same, where an armed timer fires in the end, the driver calls
\* rfid_manager_process again and again, and a call that has started runs
\* to its return
SpecTasksFair ==
  /\ SpecTasks
  /\ WF_vars(TimerFires)
  /\ WF_vars(ProcessRead)
  /\ WF_vars(ProcessWrite)
  /\ WF_vars(ProcessClear)
  /\ WF_vars(FlushSave)
  /\ WF_vars(FlushTail)

\* ------------------------------------------------------------ the claims
\* what rfid_manager_check_card answers for card_id on table db
IsActive(db, card_id) == FindActive(db, card_id) # 0

\* some slot of db, active or removed, holds card_id
Holds(db, card_id) == \E i \in DOMAIN db : db[i].card_id = card_id

\* every slot of db is active with a nonzero id
Full(db) == \A i \in DOMAIN db : db[i].active # 0 /\ db[i].card_id # 0

\* the step is a call of add with a name that obtains the lock
AddCalled ==
  /\ call'.op = "add"
  /\ TakesLock
  /\ call'.ret # "ESP_ERR_INVALID_ARG"

\* C1 (uniqueness): in every reachable state no two active slots hold the
\* same nonzero card id.
C1_Uniqueness ==
  \A i, j \in SlotIndex :
    (/\ i # j
     /\ rfid_database[i].active # 0
     /\ rfid_database[j].active # 0
     /\ rfid_database[i].card_id # 0)
    => rfid_database[i].card_id # rfid_database[j].card_id

\* an add of an id that an active slot holds was turned away
C1_Witness ==
  /\ call.op = "add"
  /\ call.ret = "ESP_ERR_INVALID_STATE"
  /\ IsActive(rfid_database, call.card_id)
  /\ CountActive(rfid_database) = RFID_MAX_CARDS

\* C2 (capacity): an add of an id that no slot holds returns ESP_ERR_NO_MEM and
\* changes nothing when every slot is active with a nonzero id; when exactly
\* one slot is not (one active card was removed from a full table) such an
\* add of a nonzero id returns ESP_OK and the table is full again.
C2_Capacity ==
  [][(AddCalled /\ ~Holds(rfid_database, call'.card_id))
     => /\ Full(rfid_database)
           => /\ call'.ret = "ESP_ERR_NO_MEM"
              /\ rfid_database' = rfid_database
              /\ CountActive(rfid_database') = RFID_MAX_CARDS
        /\ (CountActive(rfid_database) = RFID_MAX_CARDS - 1 /\ call'.card_id # 0)
           => /\ call'.ret = "ESP_OK"
              /\ CountActive(rfid_database') = RFID_MAX_CARDS
              /\ Full(rfid_database')]_vars

\* an add was refused for lack of room on a table that was full, emptied by
\* one remove and filled again: a default card is gone and two enrolled ids
\* are active
C2_Witness ==
  /\ call.op = "add"
  /\ call.ret = "ESP_ERR_NO_MEM"
  /\ Full(rfid_database)
  /\ ~Holds(rfid_database, call.card_id)
  /\ \E d \in 1 .. num_default_cards : ~Holds(rfid_database, d)

ActiveInFile(file, card_id) ==
  /\ file.exists
  /\ \E i \in 1 .. Len(file.recs) :
       file.recs[i].card_id = card_id /\ file.recs[i].active # 0

\* the file holds exactly the table db
FileHolds(file, db) == file.exists /\ file.recs = db

\* the table a re-init leaves in memory when the filesystem works: the records
\* of a file of RFID_MAX_CARDS records, the default cards otherwise
Reloaded(file) ==
  IF file.exists /\ Len(file.recs) = RFID_MAX_CARDS
  THEN [i \in SlotIndex |-> file.recs[i]]
  ELSE [i \in SlotIndex |->
          IF i <= num_default_cards THEN default_cards[i] ELSE EmptySlot]

\* the step is a successful add or remove
Mutated == call'.op \in {"add", "remove"} /\ call'.ret = "ESP_OK"

\* the step is a successful re-init right after a successful add of a nonzero
\* id made with a timeout above 0 (a check in between would change one
\* timestamp in memory and nothing else)
ReinitAfterDeferredAdd ==
  /\ call.op = "add"
  /\ call.ret = "ESP_OK"
  /\ call.card_id # 0
  /\ rfid_write_timeout_ms > 0
  /\ IsActive(rfid_database, call.card_id)
  /\ call'.op = "init"
  /\ call'.ret = "ESP_OK"

\* C4 as written (debounce, no immediate write): with a timeout above 0 a
\* successful add or remove leaves the file as it was, and a re-init right
\* after a successful add leaves the added id not active.
C4_AsWritten ==
  [][/\ (Mutated /\ rfid_write_timeout_ms > 0) => database_file' = database_file
     /\ ReinitAfterDeferredAdd => ~IsActive(rfid_database', call.card_id)]_vars

\* C4 as amended: the same, for an added id that no active record of the file
\* holds (the file holds it when the id was saved, then removed and its slot
\* taken by another add, all before the timer expired).
C4_NoImmediateWrite ==
  [][/\ (Mutated /\ rfid_write_timeout_ms > 0)
        => /\ database_file' = database_file
           /\ is_dirty'
           /\ rfid_write_timer' = "armed"
     /\ (ReinitAfterDeferredAdd /\ ~ActiveInFile(database_file, call.card_id))
        => ~IsActive(rfid_database', call.card_id)]_vars

\* an add with a timeout above 0 has returned ESP_OK: the id is active in
\* memory and in no active record of the file
C4_Witness ==
  /\ call.op = "add"
  /\ call.ret = "ESP_OK"
  /\ call.card_id # 0
  /\ rfid_write_timeout_ms > 0
  /\ IsActive(rfid_database, call.card_id)
  /\ ~ActiveInFile(database_file, call.card_id)
  /\ is_dirty
  /\ rfid_write_timer = "armed"

\* C5 (timer expiry persists): a successful re-init right after the timer has
\* expired finds every card that was active in memory.
C5_TimerExpiryPersists ==
  [][(call.op = "timer" /\ call'.op = "init" /\ call'.ret = "ESP_OK")
     => \A id \in CardIds \ {0} :
          IsActive(rfid_database, id) => IsActive(rfid_database', id)]_vars

\* C6 (flush): flush stops the timer and leaves the table alone; when dirty it
\* returns ESP_OK with the table in the file and dirty cleared, or an error
\* with dirty kept; when not dirty it writes nothing and returns ESP_OK; after
\* a flush that returned ESP_OK a re-init finds every card that is active in
\* memory and no card that memory holds as removed.
C6_Flush ==
  [][(call'.op = "flush" /\ TakesLock)
     => /\ rfid_write_timer' # "armed"
        /\ rfid_database' = rfid_database
        /\ IF is_dirty
           THEN /\ call'.ret = "ESP_OK"
                   => FileHolds(database_file', rfid_database) /\ ~is_dirty'
                /\ call'.ret # "ESP_OK" => is_dirty'
           ELSE /\ database_file' = database_file
                /\ call'.ret = "ESP_OK"
                /\ ~is_dirty'
        /\ call'.ret = "ESP_OK"
           => \A id \in CardIds \ {0} :
                /\ IsActive(rfid_database', id) => IsActive(Reloaded(database_file'), id)
                /\ (Holds(rfid_database', id) /\ ~IsActive(rfid_database', id))
                   => ~IsActive(Reloaded(database_file'), id)]_vars

\* C7 (coalescing disabled): with timeout 0 an add or remove that returns
\* ESP_OK leaves the file equal to the table, dirty false and the timer not
\* armed, and a re-init finds an added card.
C7_WriteThrough ==
  [][(Mutated /\ rfid_write_timeout_ms = 0)
     => /\ FileHolds(database_file', rfid_database')
        /\ ~is_dirty'
        /\ rfid_write_timer' # "armed"
        /\ call'.op = "add" => IsActive(Reloaded(database_file'), call'.card_id)]_vars

\* an add with timeout 0 has returned ESP_OK
C7_Witness ==
  /\ call.op = "add"
  /\ call.ret = "ESP_OK"
  /\ rfid_write_timeout_ms = 0
  /\ IsActive(rfid_database, call.card_id)
  /\ FileHolds(database_file, rfid_database)

\* C8 (format): a format that returns ESP_OK leaves the default cards in the
\* first slots, active, every other slot zeroed, three cards counted, the
\* timer not armed, dirty false and that table in the file.
C8_Format ==
  [][(call'.op = "format" /\ call'.ret = "ESP_OK")
     => /\ \A i \in SlotIndex :
             rfid_database'[i] = IF i <= 3 THEN default_cards[i] ELSE EmptySlot
        /\ CountActive(rfid_database') = 3
        /\ rfid_write_timer' # "armed"
        /\ ~is_dirty'
        /\ FileHolds(database_file', rfid_database')]_vars

\* a format has returned ESP_OK on a store whose timer had expired with a
\* write still owed
C8_Witness ==
  /\ call.op = "format"
  /\ call.ret = "ESP_OK"
  /\ is_ready_to_write
  /\ rfid_write_timeout_ms # RFID_DEFAULT_CACHE_TIMEOUT_MS
  /\ FileHolds(database_file, rfid_database)

\* C9 (corruption fallback): an init that finds the file absent or of another
\* size than RFID_MAX_CARDS records leaves exactly the default cards active
\* and has written them to the file, so the next init loads them again.
C9_CorruptionFallback ==
  [][(/\ call'.op = "init"
      /\ ~database_file.exists \/ Len(database_file.recs) # RFID_MAX_CARDS)
     => /\ \A i \in SlotIndex :
             rfid_database'[i] = IF i <= 3 THEN default_cards[i] ELSE EmptySlot
        /\ FileHolds(database_file', rfid_database')
        /\ rfid_manager_load_from_file(ZeroedDatabase, database_file', TRUE) =
             [ret |-> "ESP_OK", db |-> rfid_database']]_vars

\* an init has found a file of the wrong size on a store that was running
C9_Witness ==
  /\ call.op = "init"
  /\ call.load = "ESP_ERR_INVALID_SIZE"
  /\ call.ret = "ESP_OK"
  /\ steps > 1
  /\ FileHolds(database_file, rfid_database)

\* C10 (corrupted content): an init that finds a file whose records were
\* altered after the last save leaves the default cards in the table.
C10_CorruptedContent ==
  [][(call'.op = "init" /\ file_altered)
     => \A i \in SlotIndex :
          rfid_database'[i] = IF i <= 3 THEN default_cards[i] ELSE EmptySlot]_vars

\* some slot of db holds card_id with active set
SomeActiveSlot(db, card_id) ==
  \E i \in DOMAIN db : db[i].card_id = card_id /\ db[i].active # 0

\* the number of slots of db with active set and a nonzero id
ActiveNonzero(db) ==
  Cardinality({i \in DOMAIN db : db[i].active # 0 /\ db[i].card_id # 0})

\* C11 (remove): with the lock obtained remove(id) returns ESP_OK iff some
\* slot holds id with active set; it then clears the active flag of that slot
\* and nothing else, the active count drops by one and check(id) and
\* get_card(id) no longer find the card; otherwise it returns
\* ESP_ERR_NOT_FOUND and the table is as before.
C11_Remove ==
  [][(call'.op = "remove" /\ TakesLock)
     => /\ call'.ret = "ESP_OK" <=> SomeActiveSlot(rfid_database, call'.card_id)
        /\ call'.ret = "ESP_OK"
           => /\ \E i \in SlotIndex :
                   /\ rfid_database[i].card_id = call'.card_id
                   /\ rfid_database[i].active # 0
                   /\ rfid_database' = [rfid_database EXCEPT ![i].active = 0]
              /\ ActiveNonzero(rfid_database') + 1 = ActiveNonzero(rfid_database)
              /\ ~SomeActiveSlot(rfid_database', call'.card_id)
              /\ GetCard(rfid_database', call'.card_id).ret = "ESP_ERR_NOT_FOUND"
        /\ call'.ret # "ESP_OK"
           => /\ call'.ret = "ESP_ERR_NOT_FOUND"
              /\ rfid_database' = rfid_database]_vars

\* C12 (lookup): with the lock obtained check(id) returns true iff some slot
\* holds id with active set, get_card(id) returns ESP_OK with a copy of that
\* slot under the same condition and ESP_ERR_NOT_FOUND otherwise, and a card
\* is found by both right after a successful add.
C12_Lookup ==
  [][/\ (call'.op = "check" /\ TakesLock)
        => (call'.ret = "true" <=> SomeActiveSlot(rfid_database, call'.card_id))
     /\ (call'.op = "get_card" /\ TakesLock /\ call'.ret # "ESP_ERR_INVALID_ARG")
        => IF SomeActiveSlot(rfid_database, call'.card_id)
           THEN /\ call'.ret = "ESP_OK"
                /\ \E i \in SlotIndex :
                     /\ rfid_database[i].card_id = call'.card_id
                     /\ rfid_database[i].active # 0
                     /\ call'.out = rfid_database[i]
           ELSE call'.ret = "ESP_ERR_NOT_FOUND"
     /\ (call'.op = "add" /\ call'.ret = "ESP_OK")
        => /\ SomeActiveSlot(rfid_database', call'.card_id)
           /\ GetCard(rfid_database', call'.card_id).ret = "ESP_OK"]_vars

\* C13 (count): with the lock obtained get_card_count returns the number of
\* slots with active set and a nonzero id; an add that returns ESP_OK raises
\* that number by one, a remove that returns ESP_OK lowers it by one, and an
\* add or remove that fails leaves it as it was.
C13_Count ==
  [][/\ (call'.op = "get_card_count" /\ TakesLock)
        => call'.out = ActiveNonzero(rfid_database)
     /\ (call'.op = "add" /\ call'.ret = "ESP_OK")
        => ActiveNonzero(rfid_database') = ActiveNonzero(rfid_database) + 1
     /\ (call'.op = "remove" /\ call'.ret = "ESP_OK")
        => ActiveNonzero(rfid_database') + 1 = ActiveNonzero(rfid_database)
     /\ (call'.op \in {"add", "remove"} /\ call'.ret # "ESP_OK")
        => ActiveNonzero(rfid_database') = ActiveNonzero(rfid_database)]_vars

\* the slots of db with active set and a nonzero id
ActiveSlots(db) == {i \in DOMAIN db : db[i].active # 0 /\ db[i].card_id # 0}

\* the k-th of them in ascending slot order
NthActiveSlot(db, k) ==
  CHOOSE i \in ActiveSlots(db) :
    Cardinality({j \in ActiveSlots(db) : j < i}) = k - 1

\* C14 (list): with the lock obtained list_cards with valid pointers returns
\* ESP_OK, copies min(buffer_size, active count) records, the k-th copied
\* record being the k-th slot with active set and a nonzero id in ascending
\* slot order, and changes no slot.
C14_List ==
  [][(call'.op = "list_cards" /\ TakesLock /\ call'.ret # "ESP_ERR_INVALID_ARG")
     => /\ call'.ret = "ESP_OK"
        /\ Len(call'.out) = Min(call'.card_id, Cardinality(ActiveSlots(rfid_database)))
        /\ \A k \in 1 .. Len(call'.out) :
             call'.out[k] = rfid_database[NthActiveSlot(rfid_database, k)]
        /\ rfid_database' = rfid_database]_vars

\* a list call with a buffer smaller than the active count has returned, on a
\* table with a removed slot below an active one
C14_Witness ==
  /\ call.op = "list_cards"
  /\ call.ret = "ESP_OK"
  /\ call.card_id > 0
  /\ call.card_id < Cardinality(ActiveSlots(rfid_database))
  /\ Len(call.out) = call.card_id
  /\ \E i, j \in SlotIndex :
       /\ i < j
       /\ rfid_database[i].card_id # 0 /\ rfid_database[i].active = 0
       /\ rfid_database[j].card_id # 0 /\ rfid_database[j].active # 0

\* C15 (zero id rejected): with the lock obtained add(0, name) returns
\* ESP_ERR_INVALID_ARG and changes no slot, the dirty flag, the timer or the
\* file.
C15_ZeroIdRejected ==
  [][(call'.op = "add" /\ call'.card_id = 0 /\ TakesLock)
     => /\ call'.ret = "ESP_ERR_INVALID_ARG"
        /\ rfid_database' = rfid_database
        /\ is_dirty' = is_dirty
        /\ rfid_write_timer' = rfid_write_timer
        /\ database_file' = database_file]_vars

\* C16 (no active empty slot): in every reachable state no slot has active
\* set while its id is 0.
C16_NoActiveEmptySlot ==
  \A i \in SlotIndex :
    ~(rfid_database[i].active # 0 /\ rfid_database[i].card_id = 0)

\* the step is an add, with a name, of a nonzero id that an earlier add has
\* enrolled since the table was last reset or loaded
AddOfEnrolledId ==
  /\ AddCalled
  /\ call'.card_id # 0
  /\ call'.card_id \in added

\* C17 as written (strict id reservation): once an add of an id has returned
\* ESP_OK, every later add of that id returns ESP_ERR_INVALID_STATE, until a
\* format or a reload (on runs whose adds were all of nonzero ids).
C17_AsWritten ==
  [][(AddOfEnrolledId /\ 0 \notin added) => call'.ret = "ESP_ERR_INVALID_STATE"]_vars

\* C17 as amended: such an add returns ESP_ERR_INVALID_STATE and changes no
\* slot for as long as a slot, active or removed, holds the id; and an
\* enrolled id leaves the table only when format or init rewrites the table or
\* when an add of another id takes the slot of the removed card.
C17_ReservedWhileHeld ==
  [][/\ (AddOfEnrolledId /\ Holds(rfid_database, call'.card_id))
        => /\ call'.ret = "ESP_ERR_INVALID_STATE"
           /\ rfid_database' = rfid_database
     /\ \A id \in added \ {0} :
          (Holds(rfid_database, id) /\ ~Holds(rfid_database', id))
          => \/ call'.op \in {"init", "format"}
             \/ /\ call'.op = "add"
                /\ call'.card_id # id
                /\ ~SomeActiveSlot(rfid_database, id)
                /\ \E i \in SlotIndex :
                     /\ rfid_database[i].card_id = id
                     /\ rfid_database'[i].card_id = call'.card_id]_vars

\* an add of an id that was enrolled and then removed has been turned away
C17_Witness ==
  /\ call.op = "add"
  /\ call.ret = "ESP_ERR_INVALID_STATE"
  /\ call.card_id # 0
  /\ call.card_id \in added
  /\ Holds(rfid_database, call.card_id)
  /\ ~SomeActiveSlot(rfid_database, call.card_id)

\* slot i of db can take a new card
FreeSlot(db, i) == db[i].card_id = 0 \/ db[i].active = 0

\* C18 (first-fit slot reuse): an add that returns ESP_OK writes its id, with
\* active set, into the lowest slot that had id 0 or active clear before the
\* call, and changes no other slot.
C18_FirstFit ==
  [][(call'.op = "add" /\ call'.ret = "ESP_OK")
     => \E i \in SlotIndex :
          /\ FreeSlot(rfid_database, i)
          /\ \A j \in SlotIndex : j < i => ~FreeSlot(rfid_database, j)
          /\ rfid_database'[i].card_id = call'.card_id
          /\ rfid_database'[i].active # 0
          /\ \A j \in SlotIndex : j # i => rfid_database'[j] = rfid_database[j]]_vars

\* an add has put a new id into the slot of a removed default card while a
\* never-used slot above it stays empty
C18_Witness ==
  /\ call.op = "add"
  /\ call.ret = "ESP_OK"
  /\ call.card_id > num_default_cards
  /\ \E i, j \in SlotIndex :
       /\ i <= num_default_cards
       /\ i < j
       /\ rfid_database[i].card_id = call.card_id
       /\ rfid_database[i].active # 0
       /\ rfid_database[j] = EmptySlot

\* C19 (failed operations have no effect): an add that returns
\* ESP_ERR_INVALID_ARG, ESP_ERR_INVALID_STATE or ESP_ERR_NO_MEM and a remove
\* that returns ESP_ERR_NOT_FOUND leave the table, the dirty flag, the timer
\* and the file as they were.
C19_FailedNoEffect ==
  [][(\/ /\ call'.op = "add"
         /\ call'.ret \in {"ESP_ERR_INVALID_ARG", "ESP_ERR_INVALID_STATE", "ESP_ERR_NO_MEM"}
      \/ /\ call'.op = "remove"
         /\ call'.ret = "ESP_ERR_NOT_FOUND")
     => /\ rfid_database' = rfid_database
        /\ is_dirty' = is_dirty
        /\ rfid_write_timer' = rfid_write_timer
        /\ is_ready_to_write' = is_ready_to_write
        /\ database_file' = database_file]_vars

\* an add on a full table has returned ESP_ERR_NO_MEM while a write was owed
\* and the timer armed, and they still are
C19_Witness ==
  /\ call.op = "add"
  /\ call.ret = "ESP_ERR_NO_MEM"
  /\ is_dirty
  /\ rfid_write_timer = "armed"
  /\ ~FileHolds(database_file, rfid_database)

CallMade ==
  /\ steps' # steps
  /\ pc' = pc
  /\ call'.op \in {"add", "remove", "check", "format"}

\* the step is the call of rfid_manager_write_into_memory by the process step
ProcessWrote == pc["driver"] = "write" /\ pc'["driver"] # "write"

\* C21 (mutual exclusion): from the take of a flush call to its return, the
\* save included, no other call obtains the lock and runs its section:
\* every call of add, remove, check or format made meanwhile, and every
\* write of the process step, finds the lock held (no card of id 0 enrolled).
C21_MutualExclusion ==
  [][(pc["caller"] # "idle" /\ 0 \notin added)
     => /\ CallMade => ~TakesLock
        /\ ProcessWrote => ~TakesLockRecursive("driver")]_vars

\* the step is a call of one of ops that finds no mutex, or the lock held by
\* a task for the whole of its wait
CallWithoutLock(ops) ==
  /\ steps' # steps \/ call' # call
  /\ pc' = pc
  /\ call'.op \in ops
  /\ rfid_mutex = "NULL" \/ xMutexHolder # "NULL"

\* C22 (lock timeout on mutating calls): an add, remove, format, flush or
\* set_cache_timeout call that finds the store uninitialised or cannot
\* obtain the lock returns a failure, never ESP_OK, and a check call then
\* returns false; none of them changes the table, the dirty flag, the timer,
\* the timeout or the file.
C22_LockTimeout ==
  [][CallWithoutLock({"add", "remove", "format", "flush", "set_cache_timeout", "check"})
     => /\ call'.ret = IF call'.op = "check" THEN "false" ELSE "ESP_FAIL"
        /\ UNCHANGED <<rfid_database, is_dirty, rfid_write_timer,
                       rfid_write_timeout_ms, database_file>>]_vars

\* an add with a name was made while a flush call held the lock and the
\* table was dirty, and has returned ESP_FAIL
C22_Witness ==
  /\ call.op = "add"
  /\ call.ret = "ESP_FAIL"
  /\ call.card_id # 0
  /\ xMutexHolder = "caller"
  /\ pc["caller"] = "locked"
  /\ is_dirty

\* C23 (lock timeout on read calls): a list_cards, get_card or
\* get_card_list_json call with valid arguments that cannot obtain the lock
\* returns a failure, never ESP_OK.
C23_ReadLockTimeout ==
  [][(/\ call'.op \in {"list_cards", "get_card", "get_card_list_json"}
      /\ call'.ret # "ESP_ERR_INVALID_ARG"
      /\ ~(call'.op = "get_card_list_json" /\ call'.out = "untouched"
           /\ call'.ret = "ESP_FAIL")
      /\ rfid_mutex # "NULL"
      /\ xMutexHolder # "NULL")
     => call'.ret # "ESP_OK"]_vars

\* every read call made in the state with these values fails: get_card and
\* list_cards return an error, get_card_count returns 0, get_card_list_json
\* returns ESP_FAIL
ReadsFail(mutex, taken, db) ==
  /\ \A card_id \in CardIds, card \in Pointers :
       GetCardCall(taken, db, card_id, card).ret \in {"ESP_FAIL", "ESP_ERR_INVALID_ARG"}
  /\ GetCardCountCall(taken, db) = 0
  /\ \A cards_buffer \in Pointers, num_cards_copied \in Pointers,
        buffer_size \in BufferSizes :
       ListCardsCall(taken, db, cards_buffer, buffer_size, num_cards_copied).ret
         \in {"ESP_FAIL", "ESP_ERR_INVALID_ARG"}
  /\ \A buffer \in Pointers, bufferMaxLength \in JsonLengths :
       JsonCall(mutex, taken, db, buffer, bufferMaxLength).ret = "ESP_FAIL"

C26_DuplicateIs409 ==
  [][(AddCalled /\ call'.card_id # 0 /\ Holds(rfid_database, call'.card_id))
     => AddHandlerStatus(call'.ret) = 409]_vars

\* the step is a call of rfid_manager_process that wrote the table to the file
ProcessPersisted ==
  /\ call'.op = "process"
  /\ is_ready_to_write
  /\ is_dirty
  /\ ~is_dirty'
  /\ FileHolds(database_file', rfid_database)

\* C27 (process return value), as stated: process returns true exactly when
\* that call wrote the table to the file, and false otherwise, also when the
\* signal was set but nothing was dirty or the write failed.
C27_AsWritten ==
  [][call'.op = "process" => (call'.ret = "true" <=> ProcessPersisted)]_vars

\* C27 (process return value), amended: process returns true exactly when
\* is_ready_to_write was set when it was called, whether it then wrote the
\* file, failed to write it or found nothing dirty; it returns false, and
\* does nothing, when the signal was clear.
C27_TrueWhenSignalled ==
  [][call'.op = "process"
     => /\ call'.ret = "true" <=> is_ready_to_write
        /\ ProcessPersisted => call'.ret = "true"
        /\ ~is_ready_to_write
           => UNCHANGED <<rfid_database, database_file, is_dirty, is_ready_to_write,
                          rfid_write_timer, rfid_write_timeout_ms>>]_vars

\* process has returned true for a write that failed: the table is still
\* dirty and not in the file, the signal still set
C27_Witness ==
  /\ call.op = "process"
  /\ call.ret = "true"
  /\ is_ready_to_write
  /\ is_dirty
  /\ ~FileHolds(database_file, rfid_database)

\* C29 (process step), as stated: with the signal clear process does nothing
\* and returns false; with the signal set and the table dirty it either
\* saves the table and clears the signal and dirty, or leaves both set; with
\* the signal set and the table not dirty it writes nothing and clears the
\* signal.
C29_AsWritten ==
  [][call'.op = "process"
     => /\ rfid_database' = rfid_database
        /\ ~is_ready_to_write
           => /\ call'.ret = "false"
              /\ UNCHANGED <<database_file, is_dirty, is_ready_to_write, rfid_write_timer>>
        /\ (is_ready_to_write /\ is_dirty)
           => \/ ~is_dirty' /\ ~is_ready_to_write' /\ FileHolds(database_file', rfid_database)
              \/ is_dirty' /\ is_ready_to_write'
        /\ (is_ready_to_write /\ ~is_dirty)
           => /\ database_file' = database_file
              /\ ~is_dirty'
              /\ ~is_ready_to_write']_vars

\* C29 (process step), amended: the same, where the write of a set signal
\* obtains the lock; when there is no mutex, or another task holds the lock
\* for the whole wait, process writes nothing and leaves dirty and the
\* signal as they were, dirty or not.
C29_ProcessStep ==
  [][call'.op = "process"
     => /\ rfid_database' = rfid_database
        /\ ~is_ready_to_write
           => /\ call'.ret = "false"
              /\ UNCHANGED <<database_file, is_dirty, is_ready_to_write, rfid_write_timer>>
        /\ (is_ready_to_write /\ (rfid_mutex = "NULL" \/ xMutexHolder \notin {"NULL", "driver"}))
           => UNCHANGED <<database_file, is_dirty, is_ready_to_write, rfid_write_timer>>
        /\ (is_ready_to_write /\ rfid_mutex # "NULL" /\ xMutexHolder \in {"NULL", "driver"})
           => IF is_dirty
              THEN \/ /\ ~is_dirty'
                      /\ ~is_ready_to_write'
                      /\ FileHolds(database_file', rfid_database)
                   \/ is_dirty' /\ is_ready_to_write'
              ELSE /\ database_file' = database_file
                   /\ ~is_dirty'
                   /\ ~is_ready_to_write']_vars

\* process has written a table with an added card to the file after the
\* timer expired: dirty and the signal are clear
C29_Witness ==
  /\ call.op = "process"
  /\ call.ret = "true"
  /\ ~is_ready_to_write
  /\ ~is_dirty
  /\ added # {}
  /\ rfid_write_timer = "stopped"
  /\ FileHolds(database_file, rfid_database)

\* C30 (set_cache_timeout): a set_cache_timeout call that obtains the lock
\* returns ESP_OK and makes the timeout the new value; when the new value is
\* smaller than the old one and the table is dirty, the timer is started
\* with the new duration if the new value is above 0, and the table is
\* written to the file at once, with dirty cleared, if it is 0; otherwise
\* the timer, the dirty flag and the file stay as they were.  The table is
\* never changed.
C30_SetCacheTimeout ==
  [][(call'.op = "set_cache_timeout" /\ rfid_mutex # "NULL" /\ xMutexHolder = "NULL")
     => /\ call'.ret = "ESP_OK"
        /\ rfid_write_timeout_ms' = call'.card_id
        /\ rfid_database' = rfid_database
        /\ IF call'.card_id < rfid_write_timeout_ms /\ is_dirty
           THEN IF call'.card_id > 0
                THEN /\ rfid_write_timer' = "armed"
                     /\ is_dirty'
                     /\ database_file' = database_file
                ELSE /\ rfid_write_timer' = "stopped"
                     /\ ~is_dirty'
                     /\ FileHolds(database_file', rfid_database)
           ELSE UNCHANGED <<rfid_write_timer, is_dirty, database_file>>]_vars

\* the timer had expired on a dirty table and a set_cache_timeout call with
\* a smaller timeout above 0 has started it again
C30_Witness ==
  /\ call.op = "set_cache_timeout"
  /\ call.ret = "ESP_OK"
  /\ call.card_id = RFID_WRITE_TIMEOUT_MS_TEST
  /\ rfid_write_timeout_ms = RFID_WRITE_TIMEOUT_MS_TEST
  /\ is_dirty
  /\ is_ready_to_write
  /\ rfid_write_timer = "armed"
  /\ steps = 3

\* C25 (coalescing): with a timeout above 0 every successful add or remove
\* of a burst leaves the file as it is and the one timer armed, and once the
\* timer armed by the last of them has expired the file has been written
\* with all the mutations of the burst: a re-init right after the expiry
\* reloads exactly the cards that were active in memory.
C25_Coalescing ==
  [][/\ (/\ Mutated
         /\ rfid_write_timeout_ms > 0
         /\ rfid_mutex # "NULL" /\ xMutexHolder = "NULL")
        => /\ rfid_write_timer' = "armed"
           /\ database_file' = database_file
           /\ is_dirty'
     /\ (call.op = "timer" /\ call'.op = "init" /\ call'.ret = "ESP_OK"
           /\ 0 \notin added)
        => \A id \in CardIds \ {0} :
             IsActive(rfid_database, id) <=> IsActive(rfid_database', id)]_vars

\* C28 (eventual persistence): with a timeout above 0, saves that never
\* fail, a timer that fires in the end and rfid_manager_process called
\* again and again, a successful add or remove is followed, whatever the
\* tasks do in between, by a state where nothing is dirty and the file
\* holds the table.
C28_EventualPersistence ==
  (call.op \in {"add", "remove"} /\ call.ret = "ESP_OK" /\ rfid_write_timeout_ms > 0)
    ~> (~is_dirty /\ FileHolds(database_file, rfid_database))

\* the step is an add or remove with timeout 0 that obtained the lock,
\* changed the table and returned the failure of its write
SaveFailedInCall ==
  /\ call'.op \in {"add", "remove"}
  /\ call'.ret = "ESP_FAIL"
  /\ rfid_mutex # "NULL" /\ xMutexHolder = "NULL"
  /\ rfid_write_timeout_ms = 0

\* C31 as written (divergence on save failure): with timeout 0 an add or
\* remove whose write fails returns an error, its mutation stays in the
\* table, dirty stays true, and the file differs from the table.
C31_AsWritten ==
  [][SaveFailedInCall
     => /\ call'.card_id # 0
           => (IsActive(rfid_database', call'.card_id) <=> call'.op = "add")
        /\ is_dirty'
        /\ ~FileHolds(database_file', rfid_database')]_vars

\* C31 (divergence on save failure): with timeout 0 an add or remove whose
\* write fails returns ESP_FAIL, its mutation stays in the table (a check
\* of a nonzero id answers true after the add, false after the remove),
\* dirty is true, and the file is the one from before the call or holds
\* the records of the new table that got through.
C31_SaveFailure ==
  [][SaveFailedInCall
     => /\ call'.card_id # 0
           => /\ rfid_database' # rfid_database
              /\ IsActive(rfid_database', call'.card_id) <=> call'.op = "add"
        /\ is_dirty'
        /\ \/ database_file' = database_file
           \/ /\ database_file'.exists
              /\ \A i \in DOMAIN database_file'.recs :
                   database_file'.recs[i] = rfid_database'[i]]_vars

\* an add with timeout 0 has returned ESP_FAIL: the card is in the table and
\* not in the file, and dirty is true
C31_Witness ==
  /\ call.op = "add"
  /\ call.ret = "ESP_FAIL"
  /\ rfid_write_timeout_ms = 0
  /\ call.card_id # 0
  /\ IsActive(rfid_database, call.card_id)
  /\ ~ActiveInFile(database_file, call.card_id)
  /\ is_dirty

\* C32 (load isolation): in every reachable state a load from the file that
\* does not return ESP_OK, the file being absent, of another size or read
\* short, leaves the table as it was before the load.
C32_LoadIsolation ==
  \A readOk \in BOOLEAN :
    LET l == rfid_manager_load_from_file(rfid_database, database_file, readOk)
    IN  l.ret # "ESP_OK" => l.db = rfid_database

\* C36 (check is RAM-only): a check call, hit or miss, changes at most the
\* timestamp of the first active slot that holds the id; it leaves the
\* dirty flag, the timer, the signal and the file as they were.
C36_CheckRamOnly ==
  [][call'.op = "check"
     => /\ \A i \in SlotIndex :
             \/ rfid_database'[i] = rfid_database[i]
             \/ /\ call'.ret = "true"
                /\ i = FindActive(rfid_database, call'.card_id)
                /\ rfid_database'[i] =
                     [rfid_database[i] EXCEPT !.timestamp = rfid_database'[i].timestamp]
        /\ is_dirty' = is_dirty
        /\ rfid_write_timer' = rfid_write_timer
        /\ is_ready_to_write' = is_ready_to_write
        /\ database_file' = database_file]_vars

\* a check has answered true and left a new timestamp in the slot, which
\* the file does not have, with nothing dirty and the timer not armed
C36_Witness ==
  /\ call.op = "check"
  /\ call.ret = "true"
  /\ ~is_dirty
  /\ rfid_write_timer = "stopped"
  /\ database_file.exists
  /\ Len(database_file.recs) = RFID_MAX_CARDS
  /\ \E i \in SlotIndex :
       /\ rfid_database[i].card_id = call.card_id
       /\ rfid_database[i].active # 0
       /\ database_file.recs[i].card_id = call.card_id
       /\ database_file.recs[i].timestamp # rfid_database[i].timestamp

\* C37 (one slot per id): in every reachable state each nonzero id is held
\* by at most one slot of the table, removed slots counted with the active
\* ones, so that a removed id never stands beside an active slot of the
\* same id.
C37_OneSlotPerId ==
  \A i, j \in SlotIndex :
    (rfid_database[i].card_id # 0 /\ rfid_database[i].card_id = rfid_database[j].card_id)
      => i = j

\* an add of the id of a removed card has been refused, in a table where an
\* added card is active: the removed id is held by its one slot
C37_Witness ==
  /\ call.op = "add"
  /\ call.ret = "ESP_ERR_INVALID_STATE"
  /\ call.card_id # 0
  /\ Holds(rfid_database, call.card_id)
  /\ ~IsActive(rfid_database, call.card_id)
  /\ \E id \in added \ {0} : IsActive(rfid_database, id)

\* the file has the id, the active flag and the name of every slot of db
SameCards(file, db) ==
  /\ file.exists
  /\ Len(file.recs) = RFID_MAX_CARDS
  /\ \A i \in SlotIndex :
       /\ file.recs[i].card_id = db[i].card_id
       /\ file.recs[i].active = db[i].active
       /\ file.recs[i].name = db[i].name

\* C38 (clean means persisted): on an initialised store whose table is
\* dirty or in the file, every call that returns with the dirty flag false,
\* format, set_cache_timeout(0) and init with a failing save among them,
\* leaves a file that has the id, the active flag and the name of every slot
\* of the table: no call clears the flag unless its save succeeded.
C38_CleanMeansPersisted ==
  [][(/\ rfid_mutex # "NULL" /\ rfid_mutex' # "NULL"
      /\ is_dirty \/ SameCards(database_file, rfid_database)
      /\ ~is_dirty')
     => SameCards(database_file', rfid_database')]_vars

\* C39 (init reloads from disk): an init that returns ESP_OK, the first or
\* a later one, leaves the table equal to the file and dirty false, so that
\* what was pending in memory is gone; the timer expiry that follows
\* writes nothing, and neither does the process step that follows it while
\* nothing is dirty.
C39_InitReloads ==
  [][/\ (call'.op = "init" /\ call'.ret = "ESP_OK")
        => /\ FileHolds(database_file', rfid_database')
           /\ ~is_dirty'
     /\ (call'.op = "timer" \/ (call'.op = "process" /\ ~is_dirty))
        => /\ database_file' = database_file
           /\ is_dirty' = is_dirty
           /\ rfid_database' = rfid_database]_vars

\* a re-init has returned ESP_OK while the timer of a pending add or remove
\* was armed: the table is the one of the file, nothing is dirty and the
\* timer is still armed
C39_Witness ==
  /\ call.op = "init"
  /\ call.ret = "ESP_OK"
  /\ call.load = "ESP_OK"
  /\ rfid_write_timer = "armed"
  /\ ~is_dirty
  /\ FileHolds(database_file, rfid_database)

\* C40 (no lock leak): after every return of every call, whatever it
\* returned, no task is left holding the lock, so that a later call by any
\* task can take it.
C40_NoLockLeak ==
  xMutexHolder = "NULL"

\* C35 (timer callback under lock): the signal is written, by the timer
\* callback and by the process step, only by a task that holds the lock, so
\* that no other task holds the lock when it changes; and the process step
\* does not clear a signal raised by an expiry that came after its write:
\* with no flush under way, it does not clear the signal while the table
\* is dirty and no timer is armed.
C35_SignalUnderLock ==
  [][/\ is_ready_to_write' # is_ready_to_write
        => xMutexHolder \in {"NULL"} \cup {task \in Tasks : pc'[task] # pc[task]}
     /\ (/\ pc["driver"] = "clear" /\ pc'["driver"] = "idle"
         /\ pc["caller"] = "idle"
         /\ is_dirty /\ rfid_write_timer # "armed")
        => is_ready_to_write']_vars

\* the step is one in which task writes the dirty flag: the is_dirty = false
\* at the start of init and after the save of a flush by the caller, after
\* the save of the deferred write by the driver
WritesDirty(task) ==
  \/ task = "caller" /\ pc[task] = "idle" /\ pc'[task] = "init"
  \/ task = "caller" /\ pc[task] = "saved" /\ pc'[task] = "idle"
  \/ task = "driver" /\ pc[task] = "writing" /\ pc'[task] = "clear"

\* C33 (dirty flag under lock): on an initialised store a task that writes
\* the dirty flag, in init, in flush_cache or in the deferred write, holds
\* the lock when it does.
C33_DirtyUnderLock ==
  [][\A task \in Tasks :
       (rfid_mutex # "NULL" /\ WritesDirty(task)) => xMutexHolder = task]_vars

\* C34 (serialized file writes): a task that is writing the file, from its
\* fopen to its fclose, holds the lock, and while it writes no other task
\* writes the file or changes the table.
C34_SerializedWrites ==
  [][pc["driver"] = "writing"
     => /\ xMutexHolder = "driver"
        /\ pc'["driver"] = "writing"
           => /\ database_file' = database_file
              /\ rfid_database' = rfid_database]_vars
====
